---- MODULE Spec2Model ----
(***************************************************************************)
(* Model of package circuitbreaker (src/circuitbreaker.go): a wrapper that *)
(* guards one *gobreaker.CircuitBreaker with a sync.RWMutex.               *)
(*                                                                         *)
(* The wrapper delegates the state machine to the dependency               *)
(* github.com/sony/gobreaker (import at src/circuitbreaker.go:23).  The    *)
(* operators of the section "gobreaker" below transcribe that package's    *)
(* functions (NewCircuitBreaker, beforeRequest, afterRequest, ...); the    *)
(* wrapper reaches them at lines 70, 80, 87, 94 and 115.                   *)
(*                                                                         *)
(* Time is a discrete clock; one tick stands for 30 seconds, so that the   *)
(* default profile (Interval 60s, Timeout 30s) is Interval 2, Timeout 1.   *)
(***************************************************************************)
EXTENDS Integers, Sequences, FiniteSets, TLC

\* ------------------------------------------------------------------ bounds
MaxCalls == 6          \* Execute calls started in one behaviour
MaxUpdates == 1        \* UpdateSettings calls started in one behaviour
MaxTime == 4           \* last clock value (the clock starts at 1)
NumGoroutines == 11    \* goroutines of the concurrent-access scenario

\* The goroutines sharing the breaker: two, each making call after call.
Procs == {1, 2}

\* ---------------------------------------------------------------- settings
\* Settings.ReadyToTrip is a function value: "nil", the predicate the tests
\* install ("custom": counts.TotalFailures >= 3), or a failure-ratio
\* predicate ("ratio": at least 3 requests, at least 60% of them failed).
DefaultSettings ==
    [MaxRequests |-> 3, Interval |-> 2, Timeout |-> 1, ReadyToTrip |-> "nil"]

\* The Settings values callers pass to NewCircuitBreaker and UpdateSettings.
SettingsSet ==
    { DefaultSettings,
      [MaxRequests |-> 2, Interval |-> 0, Timeout |-> 2, ReadyToTrip |-> "custom"],
      [MaxRequests |-> 0, Interval |-> 0, Timeout |-> 0, ReadyToTrip |-> "ratio"] }

\* --------------------------------------------------------------- gobreaker
StateClosed == "closed"
StateHalfOpen == "half-open"
StateOpen == "open"

ErrTooManyRequests == "too many requests"
ErrOpenState == "circuit breaker is open"
NoErr == "nil"

\* time.Time{} (the zero time); the clock never shows it.
ZeroTime == 0
IsZero(t) == t = ZeroTime
Before(t, u) == t < u

ZeroCounts ==
    [Requests |-> 0, TotalSuccesses |-> 0, TotalFailures |-> 0,
     ConsecutiveSuccesses |-> 0, ConsecutiveFailures |-> 0]

CountsOnRequest(c) == [c EXCEPT !.Requests = @ + 1]

CountsOnSuccess(c) ==
    [c EXCEPT !.TotalSuccesses = @ + 1,
              !.ConsecutiveSuccesses = @ + 1,
              !.ConsecutiveFailures = 0]

\* Mutant: a failure is not added to the totals.
CountsOnFailureLost(c) == [c EXCEPT !.ConsecutiveSuccesses = 0]

CountsOnFailure(c) ==
    [c EXCEPT !.TotalFailures = @ + 1,
              !.ConsecutiveFailures = @ + 1,
              !.ConsecutiveSuccesses = 0]

\* Mutant: trips at the 5th consecutive failure.
readyToTripAtFive(counts) == counts.ConsecutiveFailures >= 5

defaultReadyToTrip(counts) == counts.ConsecutiveFailures > 5

customReadyToTrip(counts) == counts.TotalFailures >= 3

\* A caller-supplied predicate over the whole of Counts:
\* counts.Requests >= 3 && TotalFailures/Requests >= 0.6.
ratioReadyToTrip(counts) ==
    counts.Requests >= 3 /\ 5 * counts.TotalFailures >= 3 * counts.Requests

\* Mutant: a caller-supplied predicate is ignored.
readyToTripDefaultOnly(b, counts) == defaultReadyToTrip(counts)

readyToTrip(b, counts) ==
    CASE b.readyToTrip = "default" -> defaultReadyToTrip(counts)
      [] b.readyToTrip = "custom" -> customReadyToTrip(counts)
      [] OTHER -> ratioReadyToTrip(counts)

defaultIsSuccessful(err) == err = NoErr

toNewGeneration(b, t) ==
    [b EXCEPT !.generation = @ + 1,
              !.counts = ZeroCounts,
              !.expiry = CASE b.state = StateClosed ->
                                IF b.interval = 0 THEN ZeroTime ELSE t + b.interval
                           [] b.state = StateOpen -> t + b.timeout
                           [] OTHER -> ZeroTime]

setState(b, state, t) ==
    IF b.state = state THEN b
    ELSE toNewGeneration([b EXCEPT !.state = state], t)

\* Mutant: an Open breaker is never moved to HalfOpen by a call.
currentStateNoProbe(b, t) ==
    CASE b.state = StateClosed ->
            IF ~IsZero(b.expiry) /\ Before(b.expiry, t) THEN toNewGeneration(b, t) ELSE b
      [] OTHER -> b

\* Mutant: the Closed window never rolls over.
currentStateNoRollover(b, t) ==
    CASE b.state = StateOpen ->
            IF Before(b.expiry, t) THEN setState(b, StateHalfOpen, t) ELSE b
      [] OTHER -> b

currentState(b, t) ==
    CASE b.state = StateClosed ->
            IF ~IsZero(b.expiry) /\ Before(b.expiry, t) THEN toNewGeneration(b, t) ELSE b
      [] b.state = StateOpen ->
            IF Before(b.expiry, t) THEN setState(b, StateHalfOpen, t) ELSE b
      [] OTHER -> b

\* gobreaker.NewCircuitBreaker(st): 0 MaxRequests becomes 1, a Timeout <= 0
\* becomes 60 seconds (2 ticks), a nil ReadyToTrip the default one.
NewGoBreaker(st, t) ==
    toNewGeneration(
        [maxRequests |-> IF st.MaxRequests = 0 THEN 1 ELSE st.MaxRequests,
         interval |-> IF st.Interval <= 0 THEN 0 ELSE st.Interval,
         timeout |-> IF st.Timeout <= 0 THEN 2 ELSE st.Timeout,
         readyToTrip |-> IF st.ReadyToTrip = "nil" THEN "default" ELSE st.ReadyToTrip,
         state |-> StateClosed,
         generation |-> 0,
         counts |-> ZeroCounts,
         expiry |-> ZeroTime], t)

\* Mutant: an Open breaker admits the call.
beforeRequestNoOpenCheck(b, t) ==
    LET c == currentState(b, t) IN
    IF c.state = StateHalfOpen /\ c.counts.Requests >= c.maxRequests
      THEN [cb |-> c, generation |-> c.generation, err |-> ErrTooManyRequests]
    ELSE [cb |-> [c EXCEPT !.counts = CountsOnRequest(@)],
          generation |-> c.generation, err |-> NoErr]

\* Mutant: the HalfOpen budget check is off by one.
beforeRequestOffByOne(b, t) ==
    LET c == currentState(b, t) IN
    IF c.state = StateOpen
      THEN [cb |-> c, generation |-> c.generation, err |-> ErrOpenState]
    ELSE IF c.state = StateHalfOpen /\ c.counts.Requests > c.maxRequests
      THEN [cb |-> c, generation |-> c.generation, err |-> ErrTooManyRequests]
    ELSE [cb |-> [c EXCEPT !.counts = CountsOnRequest(@)],
          generation |-> c.generation, err |-> NoErr]

\* Mutant: both rejections return the same error.
beforeRequestOneError(b, t) ==
    LET c == currentState(b, t) IN
    IF c.state = StateOpen
      THEN [cb |-> c, generation |-> c.generation, err |-> ErrOpenState]
    ELSE IF c.state = StateHalfOpen /\ c.counts.Requests >= c.maxRequests
      THEN [cb |-> c, generation |-> c.generation, err |-> ErrOpenState]
    ELSE [cb |-> [c EXCEPT !.counts = CountsOnRequest(@)],
          generation |-> c.generation, err |-> NoErr]

\* Mutant: a call beyond the probe budget re-opens the breaker.
beforeRequestTripOnExceed(b, t) ==
    LET c == currentState(b, t) IN
    IF c.state = StateOpen
      THEN [cb |-> c, generation |-> c.generation, err |-> ErrOpenState]
    ELSE IF c.state = StateHalfOpen /\ c.counts.Requests >= c.maxRequests
      THEN [cb |-> setState(c, StateOpen, t), generation |-> c.generation,
            err |-> ErrTooManyRequests]
    ELSE [cb |-> [c EXCEPT !.counts = CountsOnRequest(@)],
          generation |-> c.generation, err |-> NoErr]

beforeRequest(b, t) ==
    LET c == currentState(b, t) IN
    IF c.state = StateOpen
      THEN [cb |-> c, generation |-> c.generation, err |-> ErrOpenState]
    ELSE IF c.state = StateHalfOpen /\ c.counts.Requests >= c.maxRequests
      THEN [cb |-> c, generation |-> c.generation, err |-> ErrTooManyRequests]
    ELSE [cb |-> [c EXCEPT !.counts = CountsOnRequest(@)],
          generation |-> c.generation, err |-> NoErr]

\* Mutant: the first successful probe closes the breaker.
onSuccessEager(b, state, t) ==
    CASE state = StateClosed -> [b EXCEPT !.counts = CountsOnSuccess(@)]
      [] state = StateHalfOpen ->
            setState([b EXCEPT !.counts = CountsOnSuccess(@)], StateClosed, t)
      [] OTHER -> b

onSuccess(b, state, t) ==
    CASE state = StateClosed -> [b EXCEPT !.counts = CountsOnSuccess(@)]
      [] state = StateHalfOpen ->
            LET c == [b EXCEPT !.counts = CountsOnSuccess(@)] IN
            IF c.counts.ConsecutiveSuccesses >= c.maxRequests
              THEN setState(c, StateClosed, t) ELSE c
      [] OTHER -> b

\* Mutant: a failed probe is counted and the breaker stays HalfOpen.
onFailureTolerant(b, state, t) ==
    CASE state = StateClosed ->
            LET c == [b EXCEPT !.counts = CountsOnFailure(@)] IN
            IF readyToTrip(c, c.counts) THEN setState(c, StateOpen, t) ELSE c
      [] state = StateHalfOpen -> [b EXCEPT !.counts = CountsOnFailure(@)]
      [] OTHER -> b

onFailure(b, state, t) ==
    CASE state = StateClosed ->
            LET c == [b EXCEPT !.counts = CountsOnFailure(@)] IN
            IF readyToTrip(c, c.counts) THEN setState(c, StateOpen, t) ELSE c
      [] state = StateHalfOpen -> setState(b, StateOpen, t)
      [] OTHER -> b

\* Mutant: the outcome of a call of an earlier generation is recorded too.
afterRequestStale(b, before, success, t) ==
    LET c == currentState(b, t) IN
    IF success THEN onSuccess(c, c.state, t) ELSE onFailure(c, c.state, t)

\* Mutant: only the successes of an earlier generation are dropped.
afterRequestStaleFailure(b, before, success, t) ==
    LET c == currentState(b, t) IN
    IF c.generation # before /\ success THEN c
    ELSE IF success THEN onSuccess(c, c.state, t)
    ELSE onFailure(c, c.state, t)

afterRequest(b, before, success, t) ==
    LET c == currentState(b, t) IN
    IF c.generation # before THEN c
    ELSE IF success THEN onSuccess(c, c.state, t)
    ELSE onFailure(c, c.state, t)

\* ------------------------------------------------------------ sync.RWMutex
\* readers: goroutines holding the read lock; pending: a writer has announced
\* itself and waits for the readers to leave; writer: a writer holds the lock.
CanRLock(m) == ~m.pending /\ ~m.writer

CanAnnounce(m) == ~m.pending /\ ~m.writer

\* Mutant: the writer does not wait for the readers to leave.
CanLockNoDrain(m) == m.pending

CanLock(m) == m.pending /\ m.readers = 0

\* ------------------------------------------------------------------- state
VARIABLES
    now,       \* the clock
    settings,  \* CircuitBreaker.settings
    cb,        \* the object CircuitBreaker.cb points to
    mu,        \* CircuitBreaker.mu
    pc,        \* where each goroutine stands in its call
    loc,       \* each goroutine's locals
    calls,     \* Execute calls started
    updates,   \* UpdateSettings calls started
    hist       \* history: what the claims speak about, never read by the code

vars == <<now, settings, cb, mu, pc, loc, calls, updates, hist>>

None == "none"

\* fn's return values (result, error), or a panic.
WorkOutcomes ==
    { [res |-> "value", err |-> NoErr],
      [res |-> "nil", err |-> "boom"],
      [res |-> "partial", err |-> "boom"],
      [res |-> "panic", err |-> "panic"] }

Panicked(out) == out.res = "panic"

\* gen: generation returned by beforeRequest; out: what fn returned;
\* ret: what the call returns; nwork: invocations of fn in this call;
\* arg: the argument of UpdateSettings; inst: the object the call went to;
\* prev: the state of the object UpdateSettings replaced.
NoOut == [res |-> None, err |-> None]

IdleLoc ==
    [gen |-> 0, out |-> NoOut, ret |-> NoOut, nwork |-> 0, arg |-> None,
     inst |-> 0, prev |-> None]

\* inst: how many objects cb has pointed to; builtFrom: the Settings the live
\* object was built from; openedAt: when it last entered Open; probes: calls
\* admitted since it last entered HalfOpen; since: when its Closed window
\* began (0 when it has none: not Closed, or no Interval); from: the state
\* of its previous generation.
Track(h, old, new, admitted) ==
    [h EXCEPT
       !.since = IF new.state # StateClosed \/ new.interval = 0 THEN 0
                 ELSE IF new.generation # old.generation THEN now ELSE @,
       !.from = IF new.generation # old.generation THEN old.state ELSE @,
       !.openedAt = IF new.state = StateOpen /\ new.generation # old.generation
                      THEN now ELSE @,
       !.probes = IF new.state # StateHalfOpen THEN 0
                  ELSE IF new.generation # old.generation
                    THEN (IF admitted THEN 1 ELSE 0)
                  ELSE (IF admitted THEN @ + 1 ELSE @)]

Init ==
    /\ now = 1
    /\ settings \in SettingsSet
    /\ cb = NewGoBreaker(settings, now)
    /\ mu = [readers |-> 0, pending |-> FALSE, writer |-> FALSE]
    /\ pc = [p \in Procs |-> "idle"]
    /\ loc = [p \in Procs |-> IdleLoc]
    /\ calls = 0
    /\ updates = 0
    /\ hist = [inst |-> 1, builtFrom |-> settings, openedAt |-> 0, probes |-> 0,
            since |-> IF settings.Interval > 0 THEN now ELSE 0, from |-> None]

\* ----------------------------------------------------------------- Execute
\* line 78: cb.mu.RLock()
RLockFrom(p, from) ==
    /\ pc[p] = from
    /\ CanRLock(mu)
    /\ mu' = [mu EXCEPT !.readers = @ + 1]
    /\ pc' = [pc EXCEPT ![p] = "before"]
    /\ calls' = calls + 1
    /\ UNCHANGED <<now, settings, cb, loc, updates, hist>>

ExecRLock(p) == calls < MaxCalls /\ RLockFrom(p, "idle")

\* line 80, gobreaker.Execute: generation, err := cb.beforeRequest()
ExecBefore(p) ==
    /\ pc[p] = "before"
    /\ LET r == beforeRequest(cb, now) IN
       /\ cb' = r.cb
       /\ hist' = Track(hist, cb, r.cb, r.err = NoErr)
       /\ IF r.err # NoErr
            THEN /\ loc' = [loc EXCEPT ![p].ret = [res |-> "nil", err |-> r.err],
                                       ![p].inst = hist.inst]
                 /\ pc' = [pc EXCEPT ![p] = "unlock"]
            ELSE /\ loc' = [loc EXCEPT ![p].gen = r.generation,
                                       ![p].inst = hist.inst]
                 /\ pc' = [pc EXCEPT ![p] = "work"]
    /\ UNCHANGED <<now, settings, mu, calls, updates>>

\* line 80, gobreaker.Execute: result, err := req()
WorkReturns(p, outs) ==
    /\ pc[p] = "work"
    /\ \E out \in outs :
         loc' = [loc EXCEPT ![p].out = out, ![p].nwork = @ + 1]
    /\ pc' = [pc EXCEPT ![p] = "after"]
    /\ UNCHANGED <<now, settings, cb, mu, calls, updates, hist>>

ExecWork(p) == WorkReturns(p, WorkOutcomes)

\* Mutant: the result is dropped when fn returns an error.
ExecAfterSwallow(p) ==
    /\ pc[p] = "after"
    /\ LET out == loc[p].out
           ok == IF Panicked(out) THEN FALSE ELSE defaultIsSuccessful(out.err)
           c == afterRequest(cb, loc[p].gen, ok, now) IN
       /\ cb' = c
       /\ hist' = Track(hist, cb, c, FALSE)
       /\ loc' = [loc EXCEPT ![p].ret = IF ok THEN out ELSE [res |-> "nil", err |-> out.err]]
    /\ pc' = [pc EXCEPT ![p] = "unlock"]
    /\ UNCHANGED <<now, settings, mu, calls, updates>>

\* line 80, gobreaker.Execute: cb.afterRequest(generation, cb.isSuccessful(err))
\* and return result, err; after a panic afterRequest(generation, false) and
\* the panic goes on.
ExecAfter(p) ==
    /\ pc[p] = "after"
    /\ LET out == loc[p].out
           ok == IF Panicked(out) THEN FALSE ELSE defaultIsSuccessful(out.err)
           c == afterRequest(cb, loc[p].gen, ok, now) IN
       /\ cb' = c
       /\ hist' = Track(hist, cb, c, FALSE)
       /\ loc' = [loc EXCEPT ![p].ret = out]
    /\ pc' = [pc EXCEPT ![p] = "unlock"]
    /\ UNCHANGED <<now, settings, mu, calls, updates>>

\* lines 79, 86, 93, 122: defer cb.mu.RUnlock(); the call returns.
RUnlock(p) ==
    /\ pc[p] = "unlock"
    /\ mu' = [mu EXCEPT !.readers = @ - 1]
    /\ pc' = [pc EXCEPT ![p] = "idle"]
    /\ loc' = [loc EXCEPT ![p] = IdleLoc]
    /\ UNCHANGED <<now, settings, cb, calls, updates, hist>>

\* --------------------------------------------------------------- accessors
\* lines 85, 92, 121: cb.mu.RLock()
AccRLock(p) ==
    /\ pc[p] = "idle"
    /\ CanRLock(mu)
    /\ mu' = [mu EXCEPT !.readers = @ + 1]
    /\ \E m \in {"State", "Counts", "GetSettings"} : pc' = [pc EXCEPT ![p] = m]
    /\ UNCHANGED <<now, settings, cb, loc, calls, updates, hist>>

\* line 87: return cb.cb.State(); gobreaker.State runs currentState(now).
State(p) ==
    /\ pc[p] = "State"
    /\ LET c == currentState(cb, now) IN
       /\ cb' = c
       /\ hist' = Track(hist, cb, c, FALSE)
    /\ pc' = [pc EXCEPT ![p] = "unlock"]
    /\ UNCHANGED <<now, settings, mu, loc, calls, updates>>

\* Mutant: Counts() settles the due transition as State() does.
CountsLazy(p) ==
    /\ pc[p] = "Counts"
    /\ cb' = currentState(cb, now)
    /\ hist' = Track(hist, cb, cb', FALSE)
    /\ pc' = [pc EXCEPT ![p] = "unlock"]
    /\ UNCHANGED <<now, settings, mu, loc, calls, updates>>

\* line 94: return cb.cb.Counts()
Counts(p) ==
    /\ pc[p] = "Counts"
    /\ pc' = [pc EXCEPT ![p] = "unlock"]
    /\ UNCHANGED <<now, settings, cb, mu, loc, calls, updates, hist>>

\* line 123: return cb.settings
GetSettings(p) ==
    /\ pc[p] = "GetSettings"
    /\ pc' = [pc EXCEPT ![p] = "unlock"]
    /\ UNCHANGED <<now, settings, cb, mu, loc, calls, updates, hist>>

\* ---------------------------------------------------------- UpdateSettings
\* line 100: cb.mu.Lock() announces the writer, which shuts new readers out...
UpdAnnounce(p) ==
    /\ pc[p] = "idle"
    /\ updates < MaxUpdates
    /\ CanAnnounce(mu)
    /\ \E s \in SettingsSet : loc' = [loc EXCEPT ![p].arg = s]
    /\ mu' = [mu EXCEPT !.pending = TRUE]
    /\ pc' = [pc EXCEPT ![p] = "lock"]
    /\ updates' = updates + 1
    /\ UNCHANGED <<now, settings, cb, calls, hist>>

\* ... and returns once the readers have left.
UpdLock(p) ==
    /\ pc[p] = "lock"
    /\ CanLock(mu)
    /\ mu' = [mu EXCEPT !.pending = FALSE, !.writer = TRUE]
    /\ pc' = [pc EXCEPT ![p] = "newcb"]
    /\ UNCHANGED <<now, settings, cb, loc, calls, updates, hist>>

\* Mutant: the thresholds of the live object are patched in place.
UpdNewCBPatch(p) ==
    /\ pc[p] = "newcb"
    /\ cb' = [cb EXCEPT !.maxRequests = NewGoBreaker(loc[p].arg, now).maxRequests,
                        !.interval = NewGoBreaker(loc[p].arg, now).interval,
                        !.timeout = NewGoBreaker(loc[p].arg, now).timeout,
                        !.readyToTrip = NewGoBreaker(loc[p].arg, now).readyToTrip]
    /\ hist' = [hist EXCEPT !.inst = @ + 1, !.builtFrom = loc[p].arg]
    /\ loc' = [loc EXCEPT ![p].prev = cb.state]
    /\ pc' = [pc EXCEPT ![p] = "store"]
    /\ UNCHANGED <<now, settings, mu, calls, updates>>

\* lines 103-115: cb.cb = gobreaker.NewCircuitBreaker(cbSettings)
UpdNewCB(p) ==
    /\ pc[p] = "newcb"
    /\ cb' = NewGoBreaker(loc[p].arg, now)
    /\ hist' = [inst |-> hist.inst + 1, builtFrom |-> loc[p].arg,
                openedAt |-> 0, probes |-> 0,
            since |-> IF loc[p].arg.Interval > 0 THEN now ELSE 0,
            from |-> None]
    /\ loc' = [loc EXCEPT ![p].prev = cb.state]
    /\ pc' = [pc EXCEPT ![p] = "store"]
    /\ UNCHANGED <<now, settings, mu, calls, updates>>

\* line 116: cb.settings = settings
UpdStore(p) ==
    /\ pc[p] = "store"
    /\ settings' = loc[p].arg
    /\ pc' = [pc EXCEPT ![p] = "wunlock"]
    /\ UNCHANGED <<now, cb, mu, loc, calls, updates, hist>>

\* line 101: defer cb.mu.Unlock(); the call returns.
UpdUnlock(p) ==
    /\ pc[p] = "wunlock"
    /\ mu' = [mu EXCEPT !.writer = FALSE]
    /\ pc' = [pc EXCEPT ![p] = "idle"]
    /\ loc' = [loc EXCEPT ![p] = IdleLoc]
    /\ UNCHANGED <<now, settings, cb, calls, updates, hist>>

\* ------------------------------------------------------------------- clock
Tick ==
    /\ now < MaxTime
    /\ now' = now + 1
    /\ UNCHANGED <<settings, cb, mu, pc, loc, calls, updates, hist>>

Next ==
    \/ \E p \in DOMAIN pc : ExecRLock(p)
    \/ \E p \in DOMAIN pc : ExecBefore(p)
    \/ \E p \in DOMAIN pc : ExecWork(p)
    \/ \E p \in DOMAIN pc : ExecAfter(p)
    \/ \E p \in DOMAIN pc : RUnlock(p)
    \/ \E p \in DOMAIN pc : AccRLock(p)
    \/ \E p \in DOMAIN pc : State(p)
    \/ \E p \in DOMAIN pc : Counts(p)
    \/ \E p \in DOMAIN pc : GetSettings(p)
    \/ \E p \in DOMAIN pc : UpdAnnounce(p)
    \/ \E p \in DOMAIN pc : UpdLock(p)
    \/ \E p \in DOMAIN pc : UpdNewCB(p)
    \/ \E p \in DOMAIN pc : UpdStore(p)
    \/ \E p \in DOMAIN pc : UpdUnlock(p)
    \/ Tick

Spec == Init /\ [][Next]_vars

\* ------------------------------------- TestCircuitBreaker_ConcurrentAccess
\* The test starts goroutines i = 0 .. n-1 on a fresh breaker with default
\* settings; goroutine i calls Execute once, with a fn that fails iff i is
\* even.  Goroutine p of the model is the test's i = p - 1.  The calls are
\* simultaneous: the clock does not advance.
ShouldFail(p) == (p - 1) % 2 = 0

GoOutcome(p) ==
    IF ShouldFail(p) THEN [res |-> "nil", err |-> "fail"]
                     ELSE [res |-> "success", err |-> NoErr]

InitConc ==
    /\ now = 1
    /\ settings = DefaultSettings
    /\ cb = NewGoBreaker(settings, now)
    /\ mu = [readers |-> 0, pending |-> FALSE, writer |-> FALSE]
    /\ \E n \in 1..NumGoroutines :
         /\ pc = [p \in 1..n |-> "go"]
         /\ loc = [p \in 1..n |-> IdleLoc]
    /\ calls = 0
    /\ updates = 0
    /\ hist = [inst |-> 1, builtFrom |-> settings, openedAt |-> 0, probes |-> 0,
            since |-> IF settings.Interval > 0 THEN now ELSE 0, from |-> None]

\* Goroutines with the same fn that stand at the same place with the same
\* locals are interchangeable: the lowest-numbered of them takes the step.
First(p) ==
    \A q \in DOMAIN pc :
        (q < p /\ ShouldFail(q) = ShouldFail(p)) => <<pc[q], loc[q]>> # <<pc[p], loc[p]>>

GoRLock(p) == pc[p] = "go" /\ First(p) /\ RLockFrom(p, "go")
GoBefore(p) == pc[p] = "before" /\ First(p) /\ ExecBefore(p)
GoWork(p) == pc[p] = "work" /\ First(p) /\ WorkReturns(p, {GoOutcome(p)})
GoAfter(p) == pc[p] = "after" /\ First(p) /\ ExecAfter(p)
GoRUnlock(p) == pc[p] = "unlock" /\ First(p) /\ RUnlock(p)

NextConc ==
    \/ \E p \in DOMAIN pc : GoRLock(p)
    \/ \E p \in DOMAIN pc : GoBefore(p)
    \/ \E p \in DOMAIN pc : GoWork(p)
    \/ \E p \in DOMAIN pc : GoAfter(p)
    \/ \E p \in DOMAIN pc : GoRUnlock(p)

SpecConc == InitConc /\ [][NextConc]_vars

\* ================================================================== claims
Holding == {"before", "work", "after", "unlock", "State", "Counts", "GetSettings"}
Writing == {"newcb", "store", "wunlock"}
InFlight == {"work", "after"}

Rejection(e) == [res |-> "nil", err |-> e]

\* The Timeout and MaxRequests the live object runs with: gobreaker replaces
\* a Timeout <= 0 by 60 seconds (2 ticks) and a MaxRequests of 0 by 1.
EffTimeout == IF hist.builtFrom.Timeout <= 0 THEN 2 ELSE hist.builtFrom.Timeout
EffMaxRequests == IF hist.builtFrom.MaxRequests = 0 THEN 1 ELSE hist.builtFrom.MaxRequests

Returns(p) == pc[p] = "before" /\ pc'[p] # "before"

\* C1: while the breaker is Open and less than Timeout has elapsed since it
\* entered Open, an Execute call returns the rejection error, does not invoke
\* work and leaves Counts unchanged.
C1_OpenRejects ==
    [][\A p \in DOMAIN pc :
         (Returns(p) /\ cb.state = StateOpen
            /\ now - hist.openedAt < hist.builtFrom.Timeout)
         => /\ pc'[p] = "unlock"
            /\ loc'[p].ret = Rejection(ErrOpenState)
            /\ loc'[p].nwork = 0
            /\ cb'.counts = cb.counts
            /\ cb'.state = StateOpen]_vars

C1_Witness ==
    \E p \in DOMAIN pc :
        /\ pc[p] = "unlock"
        /\ loc[p].ret = Rejection(ErrOpenState)
        /\ cb.state = StateOpen
        /\ now - hist.openedAt < hist.builtFrom.Timeout
        /\ now > hist.openedAt

\* C2: with default settings the breaker is Open once 5 consecutive failures
\* have occurred, and Closed while fewer than 5 have.
C2_TripsAtFive ==
    (hist.builtFrom = DefaultSettings /\ cb.state = StateClosed)
        => cb.counts.ConsecutiveFailures < 5

\* C3: an admitted Execute call invokes work exactly once and returns what
\* work returned; a rejected one invokes it zero times and returns the
\* breaker's own error.
C3_PassThrough ==
    \A p \in DOMAIN pc :
        (pc[p] = "unlock" /\ loc[p].ret # NoOut)
        => IF loc[p].gen # 0
             THEN loc[p].nwork = 1 /\ loc[p].ret = loc[p].out
             ELSE /\ loc[p].nwork = 0
                  /\ loc[p].out = NoOut
                  /\ loc[p].ret \in {Rejection(ErrOpenState), Rejection(ErrTooManyRequests)}

C3_Witness ==
    /\ \E p \in DOMAIN pc :
         pc[p] = "unlock" /\ loc[p].gen # 0 /\ loc[p].ret = [res |-> "partial", err |-> "boom"]
    /\ \E p \in DOMAIN pc :
         pc[p] = "unlock" /\ loc[p].gen = 0 /\ loc[p].ret = Rejection(ErrTooManyRequests)

\* C4: when UpdateSettings(s) returns, State() is Closed, Counts() is all-zero
\* and GetSettings() returns s, whatever the state and Counts before.
C4_UpdateResets ==
    [][\A p \in DOMAIN pc :
         (pc[p] = "wunlock" /\ pc'[p] = "idle")
         => /\ currentState(cb', now').state = StateClosed
            /\ cb'.counts = ZeroCounts
            /\ settings' = loc[p].arg]_vars

C4_Witness ==
    \E p \in DOMAIN pc :
        /\ pc[p] = "wunlock"
        /\ loc[p].prev = StateHalfOpen
        /\ loc[p].arg # DefaultSettings
        /\ settings = loc[p].arg
        /\ cb.state = StateClosed

\* C5: UpdateSettings excludes every Execute and accessor call: while it
\* replaces the breaker no other call is inside its critical section, every
\* call in flight goes to the live object, and whoever can read the breaker
\* sees the settings the live object was built from.
C5_Exclusive ==
    /\ \A p, q \in DOMAIN pc :
         (p # q /\ pc[p] \in Writing) => pc[q] \notin (Holding \cup Writing)
    /\ \A p \in DOMAIN pc :
         pc[p] \in {"work", "after"} => loc[p].inst = hist.inst
    /\ (\E p \in DOMAIN pc : pc[p] \in Holding) => settings = hist.builtFrom
    /\ (\A p \in DOMAIN pc : pc[p] \notin Writing) => settings = hist.builtFrom

C5_Witness ==
    \E p, q \in DOMAIN pc :
        /\ pc[p] = "store"
        /\ settings # hist.builtFrom
        /\ loc[p].prev = StateOpen
        /\ pc[q] = "idle"

\* C6 (as claimed): once Timeout has elapsed since the breaker entered Open,
\* the next Execute call is admitted as a HalfOpen probe.
C6_AdmitsAfterTimeout ==
    [][\A p \in DOMAIN pc :
         (Returns(p) /\ cb.state = StateOpen
            /\ now - hist.openedAt > hist.builtFrom.Timeout)
         => /\ pc'[p] = "work"
            /\ cb'.state = StateHalfOpen]_vars

\* C6 (amended): once more than the effective Timeout (Settings.Timeout, or
\* 60 seconds when that is 0) has elapsed since the breaker entered Open, the
\* next Execute call is admitted as the first HalfOpen probe; the transition
\* happens in that call, unless a State() call made it already.
C6_AdmitsAfterEffTimeout ==
    [][\A p \in DOMAIN pc :
         /\ (Returns(p) /\ cb.state = StateOpen
               /\ now - hist.openedAt > EffTimeout)
            => /\ pc'[p] = "work"
               /\ loc'[p].gen = cb'.generation
               /\ cb'.state = StateHalfOpen
               /\ cb'.generation = cb.generation + 1
               /\ cb'.counts = CountsOnRequest(ZeroCounts)
         \* State() may have made the transition before the call arrives.
         /\ (Returns(p) /\ cb.state = StateHalfOpen /\ hist.probes = 0)
            => /\ pc'[p] = "work"
               /\ loc'[p].gen = cb.generation
               /\ cb'.state = StateHalfOpen
               /\ cb'.counts = CountsOnRequest(ZeroCounts)]_vars

C6_Witness ==
    \E p \in DOMAIN pc :
        /\ pc[p] = "work"
        /\ cb.state = StateHalfOpen
        /\ loc[p].gen = cb.generation
        /\ hist.probes = 1
        /\ cb.counts = CountsOnRequest(ZeroCounts)

\* C7 (as claimed): for every MaxRequests = N, at most N calls are admitted
\* in one HalfOpen episode.
C7_AtMostN ==
    cb.state = StateHalfOpen => hist.probes <= hist.builtFrom.MaxRequests

\* C7 (amended): at most max(N, 1) calls are admitted in one HalfOpen episode
\* (gobreaker takes a MaxRequests of 0 to be 1).
C7_AtMostEffN ==
    cb.state = StateHalfOpen => hist.probes <= EffMaxRequests

C7_Witness ==
    /\ cb.state = StateHalfOpen
    /\ hist.probes = 2
    /\ \A p \in DOMAIN pc : pc[p] = "work" /\ loc[p].gen = cb.generation

\* A step in which goroutine p records a success of a call of the current
\* generation.
RecordsSuccess(p) ==
    /\ pc[p] = "after" /\ pc'[p] = "unlock"
    /\ ~Panicked(loc[p].out) /\ loc[p].out.err = NoErr
    /\ loc[p].gen = cb.generation

\* C8 (as claimed): a HalfOpen breaker becomes Closed exactly when the number
\* of consecutive successful probes reaches MaxRequests, and Counts is then
\* all-zero.
C8_ClosesAtN ==
    [][(cb.state = StateHalfOpen /\ hist'.inst = hist.inst)
         => /\ (cb'.state = StateClosed) <=>
                 \E p \in DOMAIN pc :
                     /\ RecordsSuccess(p)
                     /\ cb.counts.ConsecutiveSuccesses + 1 = hist.builtFrom.MaxRequests
            /\ (cb'.state = StateClosed) => cb'.counts = ZeroCounts]_vars

\* C8 (amended): ... reaches max(MaxRequests, 1).
C8_ClosesAtEffN ==
    [][(cb.state = StateHalfOpen /\ hist'.inst = hist.inst)
         => /\ (cb'.state = StateClosed) <=>
                 \E p \in DOMAIN pc :
                     /\ RecordsSuccess(p)
                     /\ cb.counts.ConsecutiveSuccesses + 1 = EffMaxRequests
            /\ (cb'.state = StateClosed) => cb'.counts = ZeroCounts]_vars

C8_Witness ==
    /\ cb.state = StateClosed
    /\ cb.counts = ZeroCounts
    /\ hist.builtFrom.MaxRequests = 2
    /\ \E p \in DOMAIN pc :
         /\ pc[p] = "unlock"
         /\ loc[p].ret = [res |-> "value", err |-> NoErr]
         /\ loc[p].gen # 0
         /\ loc[p].gen + 1 = cb.generation
         /\ loc[p].inst = hist.inst
         /\ hist.openedAt # 0

\* Calls admitted in the current generation whose outcome is not yet recorded.
Pending == Cardinality({p \in DOMAIN pc : pc[p] \in InFlight /\ loc[p].gen = cb.generation})

\* C10 (as claimed): Requests == TotalSuccesses + TotalFailures in every
\* reachable state.
C10_RequestsBalance ==
    cb.counts.Requests = cb.counts.TotalSuccesses + cb.counts.TotalFailures

\* C10 (amended): Requests == TotalSuccesses + TotalFailures + the number of
\* admitted calls of the current generation still in flight; so the equation
\* of the claim holds whenever no such call is in flight.
C10_RequestsBalancePending ==
    cb.counts.Requests = cb.counts.TotalSuccesses + cb.counts.TotalFailures + Pending

C10_Witness ==
    /\ Pending = 0
    /\ cb.counts.Requests = 3
    /\ cb.counts.TotalSuccesses = 2
    /\ cb.counts.TotalFailures = 1
    /\ \E p \in DOMAIN pc : pc[p] = "work" /\ loc[p].gen # cb.generation

\* The goroutines of the scenario have all returned.
AllReturned == \A p \in DOMAIN pc : pc[p] = "idle"
Goroutines == Cardinality(DOMAIN pc)
Failing == Cardinality({p \in DOMAIN pc : ShouldFail(p)})

\* C9 (as claimed): after N goroutines have called Execute simultaneously on a
\* fresh default breaker, half of them failing, Requests == N and
\* TotalSuccesses + TotalFailures == N.
C9_AllCounted ==
    AllReturned
        => /\ cb.counts.Requests = Goroutines
           /\ cb.counts.TotalSuccesses + cb.counts.TotalFailures = Goroutines

\* C9 (amended): ... provided fewer than 6 of the calls fail (N <= 10, the
\* test's N): 6 failures in a row trip the breaker, which clears Counts and
\* rejects the calls that come later.
C9_AllCountedUpTo5 ==
    (AllReturned /\ Failing <= 5)
        => /\ cb.counts.Requests = Goroutines
           /\ cb.counts.TotalSuccesses + cb.counts.TotalFailures = Goroutines
           /\ cb.counts.TotalFailures = Failing
           /\ cb.state = StateClosed

C9_Witness ==
    /\ AllReturned
    /\ Goroutines = 10
    /\ cb.counts.Requests = 10
    /\ cb.counts.ConsecutiveFailures = 5

\* C11 (as claimed): every rejection carries the same error: a call rejected
\* in HalfOpen because the probe budget is used up returns the error of a
\* call rejected because the breaker is Open.
C11_OneSentinel ==
    \A p \in DOMAIN pc :
        (pc[p] = "unlock" /\ loc[p].ret # NoOut /\ loc[p].gen = 0)
        => loc[p].ret = Rejection(ErrOpenState)

\* C11 (amended): a rejection carries one of two errors: ErrOpenState when
\* the breaker is Open, ErrTooManyRequests when it is HalfOpen and the probe
\* budget is used up; a Closed breaker rejects nothing.
C11_TwoSentinels ==
    [][\A p \in DOMAIN pc :
         (Returns(p) /\ pc'[p] = "unlock")
         => /\ cb'.state # StateClosed
            /\ cb'.state = StateOpen => loc'[p].ret = Rejection(ErrOpenState)
            /\ cb'.state = StateHalfOpen
                 => /\ loc'[p].ret = Rejection(ErrTooManyRequests)
                    /\ hist.probes >= EffMaxRequests]_vars

C11_Witness ==
    \E p, q \in DOMAIN pc :
        /\ pc[p] = "unlock"
        /\ loc[p].ret = Rejection(ErrTooManyRequests)
        /\ cb.state = StateHalfOpen
        /\ pc[q] = "after"
        /\ loc[q].gen = cb.generation

\* The predicate the live object was built with, applied to counts.
TripPredicate(counts) ==
    CASE hist.builtFrom.ReadyToTrip = "nil" -> defaultReadyToTrip(counts)
      [] hist.builtFrom.ReadyToTrip = "custom" -> customReadyToTrip(counts)
      [] OTHER -> ratioReadyToTrip(counts)

\* The call of p returns from fn and its outcome is recorded in the Closed
\* window it was admitted in.
RecordsInClosed(p) ==
    /\ pc[p] = "after"
    /\ pc'[p] = "unlock"
    /\ currentState(cb, now).state = StateClosed
    /\ currentState(cb, now).generation = loc[p].gen

Succeeded(out) == ~Panicked(out) /\ out.err = NoErr

\* C12 (as claimed): in Closed the trip predicate is evaluated after the
\* outcome of each call is recorded, success or failure: no recorded outcome
\* leaves the breaker Closed with Counts the predicate accepts, and a trip
\* clears Counts and records the time.
C12_TripAfterEachOutcome ==
    [][\A p \in DOMAIN pc :
         RecordsInClosed(p)
         => /\ ~(cb'.state = StateClosed /\ TripPredicate(cb'.counts))
            /\ cb'.state = StateOpen
                 => cb'.counts = ZeroCounts /\ hist'.openedAt = now]_vars

\* C12 (amended): in Closed the trip predicate (the caller's, or the default
\* when none was given) is evaluated after a failed call is recorded, and a
\* true answer opens the breaker, records the time and clears Counts; a
\* successful call is recorded without the predicate being evaluated.
C12_TripAfterFailure ==
    [][\A p \in DOMAIN pc :
         RecordsInClosed(p)
         => LET c == currentState(cb, now) IN
            IF Succeeded(loc[p].out)
              THEN /\ cb'.state = StateClosed
                   /\ cb'.generation = c.generation
                   /\ cb'.counts = CountsOnSuccess(c.counts)
            ELSE IF TripPredicate(CountsOnFailure(c.counts))
              THEN /\ cb'.state = StateOpen
                   /\ cb'.generation = c.generation + 1
                   /\ cb'.counts = ZeroCounts
                   /\ cb'.expiry = now + EffTimeout
                   /\ hist'.openedAt = now
            ELSE /\ cb'.state = StateClosed
                 /\ cb'.generation = c.generation
                 /\ cb'.counts = CountsOnFailure(c.counts)]_vars

C12_Witness ==
    \E p \in DOMAIN pc :
        /\ pc[p] = "unlock"
        /\ loc[p].out.err = "boom"
        /\ hist.builtFrom.ReadyToTrip = "ratio"
        /\ cb.state = StateOpen
        /\ cb.generation = loc[p].gen + 1
        /\ cb.counts = ZeroCounts
        /\ hist.openedAt = now

\* The accessor call m of p reads its value.
Reads(p, m) == pc[p] = m /\ pc'[p] = "unlock"

\* C13 (as claimed): State(), Counts() and GetSettings() are read-only
\* snapshots: they leave the state, Counts, the timers and the settings
\* unchanged.
C13_AccessorsReadOnly ==
    [][\A p \in DOMAIN pc :
         (Reads(p, "State") \/ Reads(p, "Counts") \/ Reads(p, "GetSettings"))
         => UNCHANGED <<cb, settings>>]_vars

\* C13 (amended): Counts() and GetSettings() change nothing.  State() never
\* changes the settings, but it settles a transition that is due: an Open
\* breaker whose Timeout has elapsed becomes HalfOpen, a Closed breaker whose
\* Interval has elapsed starts a new window; either way Counts are cleared.
C13_OnlyStateSettles ==
    [][\A p \in DOMAIN pc :
         /\ (Reads(p, "Counts") \/ Reads(p, "GetSettings"))
              => UNCHANGED <<cb, settings, hist>>
         /\ Reads(p, "State")
              => /\ UNCHANGED <<settings, hist.inst, hist.builtFrom>>
                 /\ cb' # cb
                      => /\ cb'.counts = ZeroCounts
                         /\ cb'.generation = cb.generation + 1
                         /\ \/ /\ cb.state = StateOpen
                               /\ now - hist.openedAt > EffTimeout
                               /\ cb'.state = StateHalfOpen
                               /\ cb'.expiry = ZeroTime
                            \/ /\ cb.state = StateClosed
                               /\ hist.builtFrom.Interval > 0
                               /\ Before(cb.expiry, now)
                               /\ cb'.state = StateClosed
                               /\ cb'.expiry = now + hist.builtFrom.Interval
                 /\ cb' = cb
                      => /\ cb.state = StateOpen => now - hist.openedAt <= EffTimeout
                         /\ cb.state = StateClosed
                              => (IsZero(cb.expiry) \/ ~Before(cb.expiry, now))]_vars

C13_Witness ==
    \E p \in DOMAIN pc :
        /\ pc[p] = "unlock"
        /\ loc[p] = IdleLoc
        /\ \A q \in DOMAIN pc \ {p} : pc[q] = "idle"
        /\ cb.state = StateHalfOpen
        /\ cb.counts = ZeroCounts
        /\ hist.probes = 0
        /\ now - hist.openedAt > EffTimeout

\* The call of p returns from fn; gobreaker.afterRequest takes its outcome.
Settles(p) == pc[p] = "after" /\ pc'[p] = "unlock"

\* The outcome of p's call is applied to the Counts of c, the breaker as the
\* call finds it, and the transition rules are evaluated.
Applied(p, c) ==
    IF Succeeded(loc[p].out)
      THEN \/ /\ cb'.generation = c.generation
              /\ cb'.state = c.state
              /\ cb'.counts.Requests = c.counts.Requests
              /\ cb'.counts.TotalSuccesses = c.counts.TotalSuccesses + 1
              /\ cb'.counts.ConsecutiveSuccesses = c.counts.ConsecutiveSuccesses + 1
              /\ cb'.counts.TotalFailures = c.counts.TotalFailures
              /\ cb'.counts.ConsecutiveFailures = 0
           \/ /\ c.state = StateHalfOpen
              /\ c.counts.ConsecutiveSuccesses + 1 >= EffMaxRequests
              /\ cb'.state = StateClosed
              /\ cb'.generation = c.generation + 1
    ELSE \/ /\ cb'.generation = c.generation
            /\ cb'.state = StateClosed
            /\ c.state = StateClosed
            /\ cb'.counts.Requests = c.counts.Requests
            /\ cb'.counts.TotalFailures = c.counts.TotalFailures + 1
            /\ cb'.counts.ConsecutiveFailures = c.counts.ConsecutiveFailures + 1
            /\ cb'.counts.TotalSuccesses = c.counts.TotalSuccesses
            /\ cb'.counts.ConsecutiveSuccesses = 0
         \/ /\ cb'.state = StateOpen
            /\ cb'.generation = c.generation + 1

\* C14 (as claimed): the outcome of every admitted call is applied to Counts
\* and the transition rules are evaluated before Execute returns; no
\* admitted call's outcome is dropped.
C14_NoOutcomeDropped ==
    [][\A p \in DOMAIN pc :
         Settles(p) => Applied(p, currentState(cb, now))]_vars

\* C14 (amended): the outcome of an admitted call is applied, and the
\* transition rules evaluated, before Execute returns exactly when no state
\* transition and no window rollover has happened since the call was
\* admitted; the outcome of a call admitted in an earlier generation is
\* dropped.
C14_AppliedIffCurrent ==
    [][\A p \in DOMAIN pc :
         Settles(p)
         => LET c == currentState(cb, now) IN
            IF loc[p].gen = c.generation
              THEN Applied(p, c)
              ELSE ~Applied(p, c) /\ cb'.counts = c.counts]_vars

C14_Witness ==
    \E p \in DOMAIN pc :
        /\ pc[p] = "unlock"
        /\ loc[p].ret = [res |-> "nil", err |-> "boom"]
        /\ loc[p].gen # 0
        /\ loc[p].gen < cb.generation
        /\ cb.state = StateClosed
        /\ cb.counts.TotalFailures = 0
        /\ loc[p].inst = hist.inst

\* C15: while HalfOpen a single failed probe moves the breaker to Open at
\* once, clears Counts and restarts the open timer; every Execute call is then
\* rejected until a full Timeout has elapsed since that failure.
C15_FailedProbeReopens ==
    [][\A p \in DOMAIN pc :
         /\ (Settles(p) /\ ~Succeeded(loc[p].out)
               /\ cb.state = StateHalfOpen /\ loc[p].gen = cb.generation)
              => /\ cb'.state = StateOpen
                 /\ cb'.counts = ZeroCounts
                 /\ cb'.expiry = now + EffTimeout
                 /\ hist'.openedAt = now
                 /\ hist'.from = StateHalfOpen
         /\ (Returns(p) /\ cb.state = StateOpen /\ hist.from = StateHalfOpen
               /\ now - hist.openedAt < hist.builtFrom.Timeout)
              => /\ loc'[p].ret = Rejection(ErrOpenState)
                 /\ loc'[p].nwork = 0
                 /\ cb' = cb]_vars

C15_Witness ==
    \E p, q \in DOMAIN pc :
        /\ pc[p] = "unlock"
        /\ loc[p].ret = Rejection(ErrOpenState)
        /\ cb.state = StateOpen
        /\ hist.from = StateHalfOpen
        /\ now - hist.openedAt < hist.builtFrom.Timeout
        /\ pc[q] = "unlock"
        /\ loc[q].gen = cb.generation - 1
        /\ loc[q].ret.err = "boom"

\* The call of p arrives at a HalfOpen breaker whose probe budget has been
\* issued in full.
ExceedsBudget(p) ==
    Returns(p) /\ cb.state = StateHalfOpen /\ hist.probes >= EffMaxRequests

\* C16 (as claimed): while HalfOpen a call that attempts to exceed the
\* MaxRequests probe budget moves the breaker to Open, clears Counts and
\* restarts the open timer.
C16_ExceedReopens ==
    [][\A p \in DOMAIN pc :
         ExceedsBudget(p)
         => /\ cb'.state = StateOpen
            /\ cb'.counts = ZeroCounts
            /\ hist'.openedAt = now]_vars

\* C16 (amended): while HalfOpen a call that attempts to exceed the
\* MaxRequests probe budget is rejected with ErrTooManyRequests without
\* invoking work, and changes nothing: the breaker stays HalfOpen with its
\* Counts and timers as they were.
C16_ExceedOnlyRejects ==
    [][\A p \in DOMAIN pc :
         ExceedsBudget(p)
         => /\ pc'[p] = "unlock"
            /\ loc'[p].ret = Rejection(ErrTooManyRequests)
            /\ loc'[p].nwork = 0
            /\ cb' = cb
            /\ hist' = hist]_vars

C16_Witness ==
    \E p \in DOMAIN pc :
        /\ pc[p] = "unlock"
        /\ loc[p].ret = Rejection(ErrTooManyRequests)
        /\ cb.state = StateHalfOpen
        /\ cb.counts.Requests = EffMaxRequests
        /\ hist.probes = EffMaxRequests
        /\ hist.openedAt < now

\* C17 (as claimed): an Execute call never has to wait for the work body of
\* another Execute call: while a goroutine is inside fn, the read lock that
\* Execute takes first (the guard of ExecRLock) is free for a call that
\* arrives, which so goes on to be admitted or rejected.
C17_NeverWaitsForWork ==
    (\E q \in DOMAIN pc : pc[q] = "work") => CanRLock(mu)

\* ------------------------------------------- a work body reading its breaker
\* fn, running inside Execute (line 80) with the read lock of line 78 held,
\* calls State(), Counts() or GetSettings() on the same CircuitBreaker.
WorkCallsAccessor(p) ==
    /\ pc[p] = "work"
    /\ pc' = [pc EXCEPT ![p] = "nested"]
    /\ UNCHANGED <<now, settings, cb, mu, loc, calls, updates, hist>>

\* lines 85, 92, 121: cb.mu.RLock(), by a goroutine that is a reader already
NestedRLock(p) ==
    /\ pc[p] = "nested"
    /\ CanRLock(mu)
    /\ mu' = [mu EXCEPT !.readers = @ + 1]
    /\ pc' = [pc EXCEPT ![p] = "nestedread"]
    /\ UNCHANGED <<now, settings, cb, loc, calls, updates, hist>>

\* lines 87, 94, 123: the value is read (State() settles a due transition)
NestedRead(p) ==
    /\ pc[p] = "nestedread"
    /\ \E m \in {"State", "Counts", "GetSettings"} :
         LET c == IF m = "State" THEN currentState(cb, now) ELSE cb IN
         /\ cb' = c
         /\ hist' = Track(hist, cb, c, FALSE)
    /\ pc' = [pc EXCEPT ![p] = "nestedunlock"]
    /\ UNCHANGED <<now, settings, mu, loc, calls, updates>>

\* lines 86, 93, 122: defer cb.mu.RUnlock(); the accessor returns into fn.
NestedRUnlock(p) ==
    /\ pc[p] = "nestedunlock"
    /\ mu' = [mu EXCEPT !.readers = @ - 1]
    /\ pc' = [pc EXCEPT ![p] = "work"]
    /\ UNCHANGED <<now, settings, cb, loc, calls, updates, hist>>

\* Execute calls whose fn may read the breaker, and UpdateSettings calls.
NextNested ==
    \/ \E p \in DOMAIN pc : ExecRLock(p)
    \/ \E p \in DOMAIN pc : ExecBefore(p)
    \/ \E p \in DOMAIN pc : WorkCallsAccessor(p)
    \/ \E p \in DOMAIN pc : NestedRLock(p)
    \/ \E p \in DOMAIN pc : NestedRead(p)
    \/ \E p \in DOMAIN pc : NestedRUnlock(p)
    \/ \E p \in DOMAIN pc : ExecWork(p)
    \/ \E p \in DOMAIN pc : ExecAfter(p)
    \/ \E p \in DOMAIN pc : RUnlock(p)
    \/ \E p \in DOMAIN pc : UpdAnnounce(p)
    \/ \E p \in DOMAIN pc : UpdLock(p)
    \/ \E p \in DOMAIN pc : UpdNewCB(p)
    \/ \E p \in DOMAIN pc : UpdStore(p)
    \/ \E p \in DOMAIN pc : UpdUnlock(p)
    \/ Tick

SpecNested == Init /\ [][NextNested]_vars

\* C18 (as claimed): State(), Counts() and GetSettings() always return, also
\* when a work body inside Execute calls them on its own breaker while
\* another goroutine calls UpdateSettings: a call in progress never leaves
\* the goroutines with no step to take.
C18_AccessorsReturn ==
    (\E p \in DOMAIN pc : pc[p] = "nested")
    => \E p \in DOMAIN pc :
          \/ pc[p] \in {"before", "work", "after", "unlock", "nestedread",
                        "nestedunlock", "newcb", "store", "wunlock"}
          \/ pc[p] = "nested" /\ CanRLock(mu)
          \/ pc[p] = "lock" /\ CanLock(mu)

\* The call of p makes the breaker look at the clock.
Evaluates(p) == Returns(p) \/ Settles(p) \/ Reads(p, "State")

\* C19: in Closed with Interval > 0, the first call after the window's
\* elapsed time has exceeded Interval clears Counts and restarts the window,
\* so that what was recorded before does not count any more; with
\* Interval = 0 the window never rolls over and Counts are never cleared
\* while the breaker stays Closed.
C19_WindowRollover ==
    [][/\ \A p \in DOMAIN pc :
            (Evaluates(p) /\ cb.state = StateClosed
               /\ hist.builtFrom.Interval > 0
               /\ now - hist.since > hist.builtFrom.Interval)
            => /\ cb'.state = StateClosed
               /\ cb'.generation = cb.generation + 1
               /\ hist'.since = now
               /\ cb'.expiry = now + hist.builtFrom.Interval
               /\ cb'.counts \in {ZeroCounts, [ZeroCounts EXCEPT !.Requests = 1]}
       /\ (cb.state = StateClosed /\ cb'.state = StateClosed
             /\ hist'.inst = hist.inst
             /\ (hist.builtFrom.Interval = 0
                   \/ now - hist.since <= hist.builtFrom.Interval))
            => /\ cb'.generation = cb.generation
               /\ hist'.since = hist.since
               /\ cb'.counts.Requests >= cb.counts.Requests
               /\ cb'.counts.TotalSuccesses >= cb.counts.TotalSuccesses
               /\ cb'.counts.TotalFailures >= cb.counts.TotalFailures]_vars

C19_Witness ==
    \E p \in DOMAIN pc :
        /\ pc[p] = "work"
        /\ loc[p].gen = cb.generation
        /\ cb.state = StateClosed
        /\ hist.from = StateClosed
        /\ hist.since = now
        /\ hist.builtFrom.Interval > 0
        /\ cb.counts = [ZeroCounts EXCEPT !.Requests = 1]
        /\ calls >= 3

\* C20: the outcome of a work body admitted before a state transition or a
\* window rollover changes neither the Counts nor the state of the later
\* episode (a failure returning while the breaker is HalfOpen does not send
\* it back to Open, a success does not count toward closing it); and no work
\* body outlives an UpdateSettings: its outcome goes to the object that
\* admitted it, which is still the live one.
C20_StaleOutcomeIgnored ==
    [][\A p \in DOMAIN pc :
         Settles(p)
         => /\ loc[p].inst = hist.inst
            /\ hist'.inst = hist.inst
            /\ loc[p].gen # currentState(cb, now).generation
                 => /\ cb'.state = currentState(cb, now).state
                    /\ cb'.counts = currentState(cb, now).counts
                    /\ cb'.generation = currentState(cb, now).generation
            /\ (loc[p].gen # cb.generation /\ cb.state = StateHalfOpen)
                 => cb' = cb /\ hist' = hist]_vars

C20_Witness ==
    \E p \in DOMAIN pc :
        /\ pc[p] = "unlock"
        /\ loc[p].ret = [res |-> "nil", err |-> "boom"]
        /\ loc[p].gen # 0
        /\ loc[p].gen < cb.generation
        /\ cb.state = StateHalfOpen
        /\ hist.probes > 0
        /\ loc[p].inst = hist.inst
        /\ hist.inst = 2

====
